---- MODULE Spec2Model ----
(***************************************************************************)
(* A model of sveva/evaluate.py: error-curve operating points, subgroup    *)
(* evaluation, threshold alignment, fairness differentials and experiment  *)
(* aggregation.                                                            *)
(*                                                                         *)
(* Numbers.  Rates, costs and thresholds are finite reals in the program.  *)
(* They are carried here as exact integers over a common denominator: a    *)
(* rate r stands for r / RateOne, the prior dcf_p_target for num / den,    *)
(* and a cost c for c / (RateOne * den).  A quotient of two such numbers   *)
(* is a reduced fraction, or "nan" (0/0) or "inf" (x/0) as IEEE division   *)
(* gives inside pandas.                                                    *)
(*                                                                         *)
(* Calls.  Every function returns a record: kind "return" with the value,  *)
(* kind "None" for a bare None, kind "raise" with the exception's name.    *)
(***************************************************************************)
EXTENDS Integers, Sequences, FiniteSets, TLC

VARIABLES
    call,               \* the function that has been called ("" before any call)
    ret,                \* what that call returned
    fnrs, fprs, thresholds,     \* an error curve, as three parallel arrays
    dcf,                \* [p_target, c_fn, c_fp]
    fpfnth,             \* a curve table: a sequence of rows (column -> value)
    threshold,          \* the target threshold of an alignment
    df,                 \* the score/label table: a sequence of rows
    filter_keys,        \* the ordered attribute names
    sg_ret,             \* what sg_fpfnth_metrics(df, filter_keys) returned
    sg_locals,          \* the locals of that call: filter_items, fpfnth_list
    base_ret,           \* what fpfnth_metrics(df) returned (the pooled baseline)
    threshold_type,     \* the threshold_type passed to fpfn_diff
    heap,               \* the DataFrame objects, by identity
    experiment_dict,    \* label -> [df |-> object identity, metrics |-> mapping]
    comparison          \* the name of the tag column

\* the arguments of the calls: no function assigns them
args == <<fnrs, fprs, thresholds, dcf, fpfnth, threshold, df, filter_keys,
          experiment_dict, comparison>>

vars == <<call, ret, sg_ret, sg_locals, base_ret, threshold_type, heap, args>>

-----------------------------------------------------------------------------
(* Bounds of the model *)

MaxLen == 3
MaxTab == 3

(* The values the inputs are drawn from *)

Rates == {0, 1, 2}
RateOne == CHOOSE r \in Rates : \A q \in Rates : q <= r

PTargets == {[num |-> 1, den |-> 20], [num |-> 1, den |-> 2]}
Costs == {1, 10}
DcfParams == {[p_target |-> p, c_fn |-> a, c_fp |-> b] :
                 p \in PTargets, a \in Costs, b \in {1}}
    \cup {[p_target |-> [num |-> 1, den |-> 20], c_fn |-> 1, c_fp |-> 10]}

\* the thresholds of a curve: strictly ascending, as det_curve returns them
ThresholdSeqs(n) ==
    {s \in [1 .. n -> 1 .. (n + 1)] : \A i \in 1 .. (n - 1) : s[i] < s[i + 1]}

TabThresholds == {1, 2, 4}
Targets == 0 .. 5
TabRates == {0, 1}

-----------------------------------------------------------------------------
(* Return values *)

Return(v) == [kind |-> "return", exc |-> "", val |-> v]
ReturnNone == [kind |-> "None", exc |-> "", val |-> <<>>]
Raise(e) == [kind |-> "raise", exc |-> e, val |-> <<>>]
Pending == [kind |-> "pending", exc |-> "", val |-> <<>>]
NoLocals == [filter_items |-> <<>>, fpfnth_list |-> <<>>, ret |-> Pending]

(* Arithmetic *)

Abs(x) == IF x < 0 THEN -x ELSE x
Max(a, b) == IF a >= b THEN a ELSE b
Min(a, b) == IF a <= b THEN a ELSE b

RECURSIVE Gcd(_, _)
Gcd(a, b) == IF b = 0 THEN a ELSE Gcd(b, a % b)

\* a / b of two floats inside a pandas column: never raises
Div(a, b) ==
    IF b = 0
    THEN (IF a = 0 THEN [q |-> "nan", n |-> 0, d |-> 0]
                   ELSE [q |-> "inf", n |-> 0, d |-> 0])
    ELSE LET g == Gcd(a, b) IN [q |-> "num", n |-> a \div g, d |-> b \div g]

One == [q |-> "num", n |-> 1, d |-> 1]

-----------------------------------------------------------------------------
(* numpy *)

argmin_last(a) ==
    CHOOSE i \in 1 .. Len(a) :
        /\ \A j \in 1 .. Len(a) : a[i] <= a[j]
        /\ \A j \in (i + 1) .. Len(a) : a[j] > a[i]

\* np.nanargmin / np.ndarray.argmin of a non-empty array without NaN: the
\* index of the first occurrence of the minimum.
argmin(a) ==
    CHOOSE i \in 1 .. Len(a) :
        /\ \A j \in 1 .. Len(a) : a[i] <= a[j]
        /\ \A j \in 1 .. (i - 1) : a[j] > a[i]

-----------------------------------------------------------------------------
(* _compute_min_cdet, lines 15-26 *)

cdet_swapped(fnr_seq, fpr_seq, p, c_fn, c_fp) ==
    [i \in 1 .. Len(fnr_seq) |->
        fnr_seq[i] * c_fp * p.num + fpr_seq[i] * c_fn * (p.den - p.num)]

cdet(fnr_seq, fpr_seq, p, c_fn, c_fp) ==
    [i \in 1 .. Len(fnr_seq) |->
        fnr_seq[i] * c_fn * p.num + fpr_seq[i] * c_fp * (p.den - p.num)]

_compute_min_cdet(fnr_seq, fpr_seq, thr_seq, p, c_fn, c_fp) ==
    LET c == cdet(fnr_seq, fpr_seq, p, c_fn, c_fp) IN
    IF Len(c) = 0
    THEN Raise("ValueError")
    ELSE LET min_ix == argmin(c) IN Return(<<c[min_ix], thr_seq[min_ix]>>)

(* _evaluate_sv, lines 41-54 *)

EerScale == 100

eer_of_min(fpr, fnr) == Min(fpr, fnr) * EerScale

eer_of(fpr, fnr) == Max(fpr, fnr) * EerScale

\* lines 49-54, given the curve and what _compute_min_cdet returned
operating_points(fnr_seq, fpr_seq, thr_seq, m) ==
    IF m.kind = "raise"
    THEN m
    ELSE LET min_ix == argmin([i \in 1 .. Len(fnr_seq) |->
                                   Abs(fnr_seq[i] - fpr_seq[i])])
         IN Return(<<fnr_seq, fpr_seq, thr_seq, m.val[1], m.val[2],
                     eer_of(fpr_seq[min_ix], fnr_seq[min_ix]), thr_seq[min_ix]>>)

\* lines 41-54, given what det_curve returned: (fprs, fnrs, thresholds)
_evaluate_sv_curve(c, p, c_fn, c_fp) ==
    IF c.kind = "raise"
    THEN c
    ELSE operating_points(c.val[2], c.val[1], c.val[3],
             _compute_min_cdet(c.val[2], c.val[1], c.val[3], p, c_fn, c_fp))

-----------------------------------------------------------------------------
(* fpfn_min_threshold, lines 176-203 *)

Column(t, c) == [i \in 1 .. Len(t) |-> t[i][c]]

\* sp.stats.norm.ppf, element-wise: an injective transform of a rate
ppf(x) == <<"ppf", x>>

threshold_diff(t, th) == [i \in 1 .. Len(t) |-> Abs(t[i]["thresholds"] - th)]

fpfn_min_threshold(t, th, ppf_norm) ==
    LET sg_threshold_diff == threshold_diff(t, th) IN
    IF Len(t) = 0
    THEN Raise("ValueError")
    ELSE LET ix == argmin(sg_threshold_diff) IN
         IF ppf_norm
         THEN Return(<<ppf(Column(t, "fprs")[ix]), ppf(Column(t, "fnrs")[ix])>>)
         ELSE Return(<<Column(t, "fprs")[ix], Column(t, "fnrs")[ix]>>)

-----------------------------------------------------------------------------
(* Python str: a sequence of characters *)

Ord == (" " :> 32) @@ ("A" :> 65) @@ ("B" :> 66) @@ ("F" :> 70) @@ ("_" :> 95)
       @@ ("a" :> 97) @@ ("b" :> 98) @@ ("f" :> 102) @@ ("m" :> 109)
       @@ ("x" :> 120) @@ ("y" :> 121)

Lower(c) == CASE c = "A" -> "a" [] c = "B" -> "b" [] c = "F" -> "f" [] OTHER -> c

str_lower(s) == [i \in 1 .. Len(s) |-> Lower(s[i])]

IsNotSpace(c) == c # " "
str_strip_spaces(s) == SelectSeq(s, IsNotSpace)

\* x.replace(" ", "").lower()
normalise(s) == str_lower(str_strip_spaces(s))

RECURSIVE str_join(_, _)
str_join(sep, parts) ==
    IF Len(parts) = 0 THEN <<>>
    ELSE IF Len(parts) = 1 THEN parts[1]
    ELSE parts[1] \o sep \o str_join(sep, Tail(parts))

RECURSIVE str_split(_, _)
str_split(s, sep) ==
    IF \A i \in 1 .. Len(s) : s[i] # sep
    THEN <<s>>
    ELSE LET i == CHOOSE k \in 1 .. Len(s) :
                      s[k] = sep /\ \A j \in 1 .. (k - 1) : s[j] # sep
         IN <<SubSeq(s, 1, i - 1)>> \o str_split(SubSeq(s, i + 1, Len(s)), sep)

\* s < t for two str: lexicographic by code point
RECURSIVE StrLess(_, _)
StrLess(s, t) ==
    IF Len(t) = 0 THEN FALSE
    ELSE IF Len(s) = 0 THEN TRUE
    ELSE IF s[1] # t[1] THEN Ord[s[1]] < Ord[t[1]]
    ELSE StrLess(Tail(s), Tail(t))

-----------------------------------------------------------------------------
(* Python list and dict, pandas Series and DataFrame *)

RECURSIVE Concat(_)
Concat(ss) == IF Len(ss) = 0 THEN <<>> ELSE ss[1] \o Concat(Tail(ss))

Range(s) == {s[i] : i \in 1 .. Len(s)}

\* Series.unique(): the distinct values in order of first appearance
RECURSIVE unique(_)
unique(s) ==
    IF Len(s) = 0 THEN <<>>
    ELSE LET u == unique(SubSeq(s, 1, Len(s) - 1)) IN
         IF s[Len(s)] \in Range(u) THEN u ELSE Append(u, s[Len(s)])

\* a dict keeps its keys in insertion order; assigning an existing key
\* replaces its value in place
DictKeys(d) == [i \in 1 .. Len(d) |-> d[i].key]
DictHas(d, k) == \E i \in 1 .. Len(d) : d[i].key = k
DictGet(d, k) == d[CHOOSE i \in 1 .. Len(d) : d[i].key = k].val
DictSet(d, k, v) ==
    IF DictHas(d, k)
    THEN [i \in 1 .. Len(d) |-> IF d[i].key = k THEN [key |-> k, val |-> v] ELSE d[i]]
    ELSE Append(d, [key |-> k, val |-> v])

\* df[col] = val on every row
SetColumn(t, col, v) ==
    [i \in 1 .. Len(t) |->
        [c \in (DOMAIN t[i]) \cup {col} |-> IF c = col THEN v ELSE t[i][c]]]

-----------------------------------------------------------------------------
(* sklearn.metrics.det_curve(lab, sc, pos_label=1), called at line 39 *)

MaxRows == 3
MaxEnumRows == 4

RECURSIVE LcmUpTo(_)
LcmUpTo(n) == IF n <= 1 THEN 1
              ELSE LET l == LcmUpTo(n - 1) IN (l * n) \div Gcd(l, n)

\* a rate r of a computed curve stands for r / RateUnit
RateUnit == LcmUpTo(Max(MaxRows, MaxEnumRows))

Greater(a, b) == a > b

det_curve(rows) ==
    LET labs == {rows[i].lab : i \in 1 .. Len(rows)}
        thr == SortSeq(unique(Column(rows, "sc")), Greater)
        n == Len(thr)
        Count(l, t) == Cardinality({i \in 1 .. Len(rows) :
                                       rows[i].lab = l /\ rows[i].sc >= t})
        tps == [i \in 1 .. n |-> Count(1, thr[i])]
        fps == [i \in 1 .. n |-> Count(0, thr[i])]
    IN
    IF Cardinality(labs) # 2
    THEN Raise("ValueError")
    ELSE LET p_count == tps[n]
             n_count == fps[n]
             first_ind == Cardinality({i \in 1 .. n : fps[i] <= fps[1]})
             last_ind == Cardinality({i \in 1 .. n : tps[i] < tps[n]}) + 1
             m == last_ind - first_ind + 1
             \* the slice, reversed: thresholds ascending
             ix == [j \in 1 .. m |-> last_ind + 1 - j]
         IN Return(<<[j \in 1 .. m |-> (fps[ix[j]] * RateUnit) \div n_count],
                     [j \in 1 .. m |-> ((p_count - tps[ix[j]]) * RateUnit) \div p_count],
                     [j \in 1 .. m |-> thr[ix[j]]]>>)

(* _evaluate_sv, lines 30-54, on the rows' sc and lab columns *)

_evaluate_sv(rows, p, c_fn, c_fp) ==
    _evaluate_sv_curve(det_curve(rows), p, c_fn, c_fp)

(* _subgroup, lines 58-74: filter_dict is a dict attribute -> value *)

_subgroup(t, filter_dict) ==
    LET Matches(r) == \A i \in 1 .. Len(filter_dict) :
                          r[filter_dict[i].key] = filter_dict[i].val
        cols == {"sc", "lab"} \cup Range(DictKeys(filter_dict))
        sg == SelectSeq(t, Matches)
    IN [i \in 1 .. Len(sg) |-> [c \in cols |-> sg[i][c]]]

(* fpfnth_metrics, lines 78-106 *)

\* lines 97-103, given what _evaluate_sv returned
fpfnth_metrics_result(df_eval) ==
    IF df_eval.kind = "raise"
    THEN df_eval
    ELSE Return(<<[i \in 1 .. Len(df_eval.val[1]) |->
                      [fnrs |-> df_eval.val[1][i],
                       fprs |-> df_eval.val[2][i],
                       thresholds |-> df_eval.val[3][i]]],
                  [min_cdet |-> df_eval.val[4],
                   min_cdet_threshold |-> df_eval.val[5],
                   eer |-> df_eval.val[6],
                   eer_threshold |-> df_eval.val[7]]>>)

fpfnth_metrics(t, p, c_fn, c_fp) ==
    IF Len(t) > 0
    THEN fpfnth_metrics_result(_evaluate_sv(t, p, c_fn, c_fp))
    ELSE ReturnNone

(* sg_fpfnth_metrics, lines 110-172 *)

\* lines 131-136: the sorted distinct values of each attribute
sorted_values_unsorted(t, f_key) == unique(Column(t, f_key))

sorted_values(t, f_key) == SortSeq(unique(Column(t, f_key)), StrLess)

\* a dict display {k1: v1, k2: v2, ...}
DictOf(keys, vals) ==
    LET F[i \in 0 .. Len(keys)] ==
            IF i = 0 THEN <<>> ELSE DictSet(F[i - 1], keys[i], vals[i])
    IN F[Len(keys)]

\* lines 138-152: the nested loops; filter_keys[1] and filter_keys[2] raise
\* IndexError when the list is shorter, and the handler records the shorter item
filter_items_of(t, keys) ==
    LET vals0 == sorted_values(t, keys[1])
        vals1 == sorted_values(t, keys[2])
        vals2 == sorted_values(t, keys[3])
        Level2(val0, val1) ==
            IF Len(keys) < 3
            THEN <<DictOf(SubSeq(keys, 1, 2), <<val0, val1>>)>>
            ELSE [c \in 1 .. Len(vals2) |->
                     DictOf(SubSeq(keys, 1, 3), <<val0, val1, vals2[c]>>)]
        Level1(val0) ==
            IF Len(keys) < 2
            THEN <<DictOf(SubSeq(keys, 1, 1), <<val0>>)>>
            ELSE Concat([b \in 1 .. Len(vals1) |-> Level2(val0, vals1[b])])
    IN Concat([a \in 1 .. Len(vals0) |-> Level1(vals0[a])])

\* line 164
sg_name_of(fi) ==
    str_join(<<"_">>, [i \in 1 .. Len(fi) |-> normalise(fi[i].val)])

\* lines 161-162
tag_rows(t, fi) ==
    LET F[i \in 0 .. Len(fi)] ==
            IF i = 0 THEN t ELSE SetColumn(F[i - 1], fi[i].key, fi[i].val)
    IN F[Len(fi)]

\* pd.concat of a list of tables
pd_concat(tables) ==
    IF Len(tables) = 0 THEN Raise("ValueError") ELSE Return(Concat(tables))

\* lines 160-168: one iteration, given the loop's state before it and what
\* fpfnth_metrics returned; unpacking None raises TypeError, and the bare
\* except swallows every exception
sg_step(before, fi, r) ==
    IF r.kind # "return"
    THEN before
    ELSE [fpfnth_list |-> Append(before.fpfnth_list, tag_rows(r.val[1], fi)),
          metrics |-> DictSet(before.metrics, sg_name_of(fi), r.val[2])]

\* lines 154-168: the loop over filter_items
sg_loop(t, filter_items, p, c_fn, c_fp) ==
    LET Loop[i \in 0 .. Len(filter_items)] ==
            IF i = 0
            THEN [fpfnth_list |-> <<>>, metrics |-> <<>>]
            ELSE sg_step(Loop[i - 1], filter_items[i],
                         fpfnth_metrics(_subgroup(t, filter_items[i]), p, c_fn, c_fp))
    IN Loop[Len(filter_items)]

\* lines 170-172, given what pd.concat returned
sg_return(fpfnth_all, metrics) ==
    IF fpfnth_all.kind = "raise"
    THEN fpfnth_all
    ELSE Return(<<fpfnth_all.val, metrics>>)

\* the locals at the end of the call, and what it returns
sg_locals_of(filter_items, end) ==
    [filter_items |-> filter_items,
     fpfnth_list |-> end.fpfnth_list,
     ret |-> sg_return(pd_concat(end.fpfnth_list), end.metrics)]

sg_run_items(t, filter_items, p, c_fn, c_fp) ==
    sg_locals_of(filter_items, sg_loop(t, filter_items, p, c_fn, c_fp))

sg_fpfnth_metrics_run(t, keys, p, c_fn, c_fp) ==
    sg_run_items(t, filter_items_of(t, keys), p, c_fn, c_fp)

sg_fpfnth_metrics(t, keys, p, c_fn, c_fp) ==
    sg_fpfnth_metrics_run(t, keys, p, c_fn, c_fp).ret

-----------------------------------------------------------------------------
(* cdet_diff, lines 207-227, and fpfn_diff, lines 231-257 *)

HasColumn(t, c) == \A i \in 1 .. Len(t) : c \in DOMAIN t[i]

\* lines 213-215 and 240-242: the rows of the curve table that the key selects
select_subgroup(t, k) ==
    LET sg == str_split(k, "_")
        Selected(r) == /\ normalise(r["ref_nationality"]) = sg[1]
                       /\ r["ref_gender"] = sg[2]
    IN IF ~HasColumn(t, "ref_nationality") \/ ~HasColumn(t, "ref_gender")
       THEN Raise("KeyError")
       ELSE IF Len(sg) < 2
       THEN Raise("IndexError")
       ELSE Return(SelectSeq(t, Selected))

\* the first exception of a sequence of results, else the sequence of values
Collect(rs) ==
    IF \E i \in 1 .. Len(rs) : rs[i].kind = "raise"
    THEN rs[CHOOSE i \in 1 .. Len(rs) :
                /\ rs[i].kind = "raise"
                /\ \A j \in 1 .. (i - 1) : rs[j].kind # "raise"]
    ELSE Return([i \in 1 .. Len(rs) |-> rs[i].val])

\* lines 217-225 for one key, given the aligned rates
cdet_row(k, fpfn_overall_min_cdet, sg_min_cdet, baseline_min_cdet, p, c_fn, c_fp) ==
    IF fpfn_overall_min_cdet.kind = "raise"
    THEN fpfn_overall_min_cdet
    ELSE LET sg_cdet_overall_min ==
                 fpfn_overall_min_cdet.val[1] * c_fp * (p.den - p.num)
                     + fpfn_overall_min_cdet.val[2] * c_fn * p.num
         IN Return([subgroup |-> k,
                    sg_cdet_overall_min |-> sg_cdet_overall_min,
                    sg_min_cdet |-> sg_min_cdet,
                    overall_cdet_diff |-> Div(sg_cdet_overall_min, baseline_min_cdet),
                    sg_cdet_diff |-> Div(sg_min_cdet, sg_cdet_overall_min)])

\* lines 216-225 for one key, given the rows the key selected
cdet_key(k, sg_fpfnth, sg_metrics, metrics_baseline, p, c_fn, c_fp) ==
    IF sg_fpfnth.kind = "raise"
    THEN sg_fpfnth
    ELSE cdet_row(k,
                  fpfn_min_threshold(sg_fpfnth.val,
                                     metrics_baseline.min_cdet_threshold, FALSE),
                  sg_metrics.min_cdet, metrics_baseline.min_cdet, p, c_fn, c_fp)

cdet_diff(t, metrics, metrics_baseline, p, c_fn, c_fp) ==
    Collect([i \in 1 .. Len(metrics) |->
                cdet_key(metrics[i].key, select_subgroup(t, metrics[i].key),
                         metrics[i].val, metrics_baseline, p, c_fn, c_fp)])

\* lines 248-255 for one key, given the three aligned rate pairs
fpfn_row(k, overall_min_cdet, sg_overall_min_cdet, sg_min_cdet) ==
    IF overall_min_cdet.kind = "raise" THEN overall_min_cdet
    ELSE IF sg_overall_min_cdet.kind = "raise" THEN sg_overall_min_cdet
    ELSE IF sg_min_cdet.kind = "raise" THEN sg_min_cdet
    ELSE Return([subgroup |-> k,
                 overall_fpr |-> sg_overall_min_cdet.val[1],
                 overall_fnr |-> sg_overall_min_cdet.val[2],
                 sg_fpr |-> sg_min_cdet.val[1],
                 sg_fnr |-> sg_min_cdet.val[2],
                 overall_fpr_diff |->
                     Div(sg_overall_min_cdet.val[1], overall_min_cdet.val[1]),
                 overall_fnr_diff |->
                     Div(sg_overall_min_cdet.val[2], overall_min_cdet.val[2]),
                 sg_fpr_diff |->
                     Div(sg_min_cdet.val[1], sg_overall_min_cdet.val[1]),
                 sg_fnr_diff |->
                     Div(sg_min_cdet.val[2], sg_overall_min_cdet.val[2])])

\* lines 237-255 for one key, given the rows the key selected; line 237 is
\* evaluated first and, the same in every iteration, read after the loop
fpfn_key(k, t, sg_fpfnth, sg_metrics, metrics_baseline, th_type) ==
    IF Len(t) = 0
    THEN Raise("ValueError")
    ELSE IF sg_fpfnth.kind = "raise"
    THEN sg_fpfnth
    ELSE fpfn_row(k,
                  fpfn_min_threshold(t, metrics_baseline[th_type], FALSE),
                  fpfn_min_threshold(sg_fpfnth.val, metrics_baseline[th_type], FALSE),
                  fpfn_min_threshold(sg_fpfnth.val, sg_metrics[th_type], FALSE))

fpfn_diff(t, metrics, metrics_baseline, th_type) ==
    IF Len(metrics) = 0
    THEN Raise("UnboundLocalError")
    ELSE Collect([i \in 1 .. Len(metrics) |->
                     fpfn_key(metrics[i].key, t, select_subgroup(t, metrics[i].key),
                              metrics[i].val, metrics_baseline, th_type)])

-----------------------------------------------------------------------------
(* The operating-point functions on an arbitrary error curve *)

Idle ==
    /\ fpfnth = <<>> /\ threshold = 0 /\ df = <<>> /\ filter_keys = <<>>
    /\ sg_ret = Pending /\ sg_locals = NoLocals /\ base_ret = Pending
    /\ threshold_type = ""
    /\ heap = <<>> /\ experiment_dict = <<>> /\ comparison = ""

InitCurve ==
    /\ call = "" /\ ret = Pending
    /\ \E n \in 1 .. MaxLen :
          /\ fnrs \in [1 .. n -> Rates]
          /\ fprs \in [1 .. n -> Rates]
          /\ thresholds \in ThresholdSeqs(n)
    /\ dcf \in DcfParams
    /\ Idle

ComputeMinCdet ==
    /\ call = ""
    /\ call' = "_compute_min_cdet"
    /\ ret' = _compute_min_cdet(fnrs, fprs, thresholds,
                                dcf.p_target, dcf.c_fn, dcf.c_fp)
    /\ UNCHANGED <<sg_ret, sg_locals, base_ret, threshold_type, heap, args>>

EvaluateSv ==
    /\ call = ""
    /\ call' = "_evaluate_sv"
    /\ ret' = _evaluate_sv_curve(Return(<<fprs, fnrs, thresholds>>),
                                 dcf.p_target, dcf.c_fn, dcf.c_fp)
    /\ UNCHANGED <<sg_ret, sg_locals, base_ret, threshold_type, heap, args>>

NextCurve == ComputeMinCdet \/ EvaluateSv

SpecCurve == InitCurve /\ [][NextCurve]_vars

-----------------------------------------------------------------------------
(* Threshold alignment on an arbitrary curve table *)

TabRows == [fnrs : TabRates, fprs : TabRates, thresholds : TabThresholds]

InitAlign ==
    /\ call = "" /\ ret = Pending
    /\ fnrs = <<>> /\ fprs = <<>> /\ thresholds = <<>>
    /\ dcf = [p_target |-> [num |-> 1, den |-> 20], c_fn |-> 1, c_fp |-> 1]
    /\ \E n \in 0 .. MaxTab : fpfnth \in [1 .. n -> TabRows]
    /\ threshold \in Targets
    /\ df = <<>> /\ filter_keys = <<>>
    /\ sg_ret = Pending /\ sg_locals = NoLocals /\ base_ret = Pending
    /\ threshold_type = ""
    /\ heap = <<>> /\ experiment_dict = <<>> /\ comparison = ""

FpfnMinThreshold ==
    /\ call = ""
    /\ \E ppf_norm \in BOOLEAN :
          /\ call' = (IF ppf_norm THEN "fpfn_min_threshold_ppf"
                                  ELSE "fpfn_min_threshold")
          /\ ret' = fpfn_min_threshold(fpfnth, threshold, ppf_norm)
    /\ UNCHANGED <<sg_ret, sg_locals, base_ret, threshold_type, heap, args>>

NextAlign == FpfnMinThreshold

SpecAlign == InitAlign /\ [][NextAlign]_vars

-----------------------------------------------------------------------------
(* Subgroup evaluation of a score/label table with three attribute columns *)

EnumAttrs == {<<"a", "f", "x">>, <<"b", "f", "x">>, <<"b", "m", "y">>}

EnumRows == {[sc |-> 1, lab |-> l,
              ref_nationality |-> <<a[1]>>,
              ref_gender |-> <<a[2]>>,
              ref_age |-> <<a[3]>>] : l \in {0, 1}, a \in EnumAttrs}

EnumKeys == {<<"ref_nationality">>, <<"ref_gender">>,
             <<"ref_nationality", "ref_gender">>,
             <<"ref_gender", "ref_nationality">>,
             <<"ref_nationality", "ref_gender", "ref_age">>,
             <<"ref_age", "ref_gender", "ref_nationality">>}

DefaultDcf == [p_target |-> [num |-> 1, den |-> 20], c_fn |-> 1, c_fp |-> 1]

InitEnum ==
    /\ call = "" /\ ret = Pending
    /\ fnrs = <<>> /\ fprs = <<>> /\ thresholds = <<>>
    /\ dcf = DefaultDcf
    /\ fpfnth = <<>> /\ threshold = 0
    /\ \E n \in 1 .. MaxEnumRows : df \in [1 .. n -> EnumRows]
    /\ filter_keys \in EnumKeys
    /\ sg_ret = Pending /\ sg_locals = NoLocals /\ base_ret = Pending
    /\ threshold_type = ""
    /\ heap = <<>> /\ experiment_dict = <<>> /\ comparison = ""

SgFpfnthMetrics ==
    /\ call \in {"", "fpfnth_metrics"}
    /\ sg_ret = Pending
    /\ call' = "sg_fpfnth_metrics"
    /\ sg_locals' = sg_fpfnth_metrics_run(df, filter_keys,
                                          dcf.p_target, dcf.c_fn, dcf.c_fp)
    /\ sg_ret' = sg_locals'.ret
    /\ ret' = sg_ret'
    /\ UNCHANGED <<base_ret, threshold_type, heap, args>>

NextEnum == SgFpfnthMetrics

SpecEnum == InitEnum /\ [][NextEnum]_vars

-----------------------------------------------------------------------------
(* The fairness pipeline: the pooled baseline, the subgroups by nationality
   and gender, then the differentials against the baseline *)

SgNationalities == {<<"a">>, <<"A", "b">>, <<"a", "_", "b">>}
SgGenders == {<<"f">>, <<"F">>}
SgScores == {1, 2}

SgRows == [sc : SgScores, lab : {0, 1},
           ref_nationality : SgNationalities,
           ref_gender : SgGenders,
           ref_age : {<<"x">>}]

InitSg ==
    /\ call = "" /\ ret = Pending
    /\ fnrs = <<>> /\ fprs = <<>> /\ thresholds = <<>>
    /\ dcf = DefaultDcf
    /\ fpfnth = <<>> /\ threshold = 0
    /\ \E n \in 0 .. MaxRows : df \in [1 .. n -> SgRows]
    /\ filter_keys = <<"ref_nationality", "ref_gender">>
    /\ sg_ret = Pending /\ sg_locals = NoLocals /\ base_ret = Pending
    /\ threshold_type = ""
    /\ heap = <<>> /\ experiment_dict = <<>> /\ comparison = ""

FpfnthMetrics ==
    /\ call = ""
    /\ call' = "fpfnth_metrics"
    /\ base_ret' = fpfnth_metrics(df, dcf.p_target, dcf.c_fn, dcf.c_fp)
    /\ ret' = base_ret'
    /\ UNCHANGED <<sg_ret, sg_locals, threshold_type, heap, args>>

CdetDiff ==
    /\ call = "sg_fpfnth_metrics"
    /\ sg_ret.kind = "return" /\ base_ret.kind = "return"
    /\ call' = "cdet_diff"
    /\ ret' = cdet_diff(sg_ret.val[1], sg_ret.val[2], base_ret.val[2],
                        dcf.p_target, dcf.c_fn, dcf.c_fp)
    /\ UNCHANGED <<sg_ret, sg_locals, base_ret, threshold_type, heap, args>>

FpfnDiff ==
    /\ call = "sg_fpfnth_metrics"
    /\ sg_ret.kind = "return" /\ base_ret.kind = "return"
    /\ call' = "fpfn_diff"
    /\ \E th_type \in {"min_cdet_threshold", "eer_threshold"} :
          /\ threshold_type' = th_type
          /\ ret' = fpfn_diff(sg_ret.val[1], sg_ret.val[2], base_ret.val[2], th_type)
    /\ UNCHANGED <<sg_ret, sg_locals, base_ret, heap, args>>

NextSg == FpfnthMetrics \/ SgFpfnthMetrics \/ CdetDiff \/ FpfnDiff

SpecSg == InitSg /\ [][NextSg]_vars

-----------------------------------------------------------------------------
(* compare_experiments (lines 261-284).  DataFrames and metrics dicts are
   Python objects: experiment_dict holds references to them, so the tables
   live in heap.df and the metrics mappings in heap.metrics, and a value of
   experiment_dict is [df |-> index in heap.df, metrics |-> index in
   heap.metrics].  Two labels may refer to the same object. *)

\* lines 276-279: one iteration of the loop; df[comparison] = k assigns the
\* column on the object v[0] refers to, compare_df collects references
compare_step(before, item, col) ==
    [heap |-> [before.heap EXCEPT !.df[item.val.df] = SetColumn(@, col, item.key)],
     compare_df |-> Append(before.compare_df, item.val.df),
     compare_metrics |-> DictSet(before.compare_metrics, item.key, item.val.metrics)]

\* lines 270-279: the state of the loop after its first i iterations
RECURSIVE compare_loop(_, _, _, _)
compare_loop(h, items, col, i) ==
    IF i = 0
    THEN [heap |-> h, compare_df |-> <<>>, compare_metrics |-> <<>>]
    ELSE compare_step(compare_loop(h, items, col, i - 1), items[i], col)

\* lines 281-283: pd.concat reads the collected objects as they are after the
\* whole loop and copies their rows into a new table
compare_return(end) ==
    LET r == pd_concat([i \in 1 .. Len(end.compare_df) |-> end.heap.df[end.compare_df[i]]])
    IN  IF r.kind # "return" THEN r
        ELSE Return(<<r.val, end.compare_metrics>>)

\* the heap after the call, and what the call returns
compare_experiments(h, items, col) ==
    [heap |-> compare_loop(h, items, col, Len(items)).heap,
     ret |-> compare_return(compare_loop(h, items, col, Len(items)))]

MaxObjects == 2
MaxExperiments == 2

CmpTables ==
    {<<>>,
     <<[fnrs |-> 0, fprs |-> 1, thresholds |-> 1]>>,
     <<[fnrs |-> 1, fprs |-> 0, thresholds |-> 2]>>,
     <<[fnrs |-> 0, fprs |-> 1, thresholds |-> 1], [fnrs |-> 1, fprs |-> 0, thresholds |-> 2]>>}

CmpMetrics == {<<[key |-> "overall", val |-> [min_cdet |-> m]]>> : m \in {0, 1}}

ExperimentLabels == {"e1", "e2", "e3"}

\* a dict's keys are distinct
CmpDicts(h) ==
    UNION {{d \in [1 .. n -> [key : ExperimentLabels,
                              val : [df : 1 .. Len(h.df), metrics : 1 .. Len(h.metrics)]]] :
               \A i, j \in 1 .. n : d[i].key = d[j].key => i = j}
           : n \in 0 .. MaxExperiments}

InitCmp ==
    /\ call = "" /\ ret = Pending
    /\ fnrs = <<>> /\ fprs = <<>> /\ thresholds = <<>>
    /\ dcf = DefaultDcf
    /\ fpfnth = <<>> /\ threshold = 0 /\ df = <<>> /\ filter_keys = <<>>
    /\ sg_ret = Pending /\ sg_locals = NoLocals /\ base_ret = Pending
    /\ threshold_type = ""
    /\ \E n, m \in 1 .. MaxObjects :
          heap \in [df : [1 .. n -> CmpTables], metrics : [1 .. m -> CmpMetrics]]
    /\ experiment_dict \in CmpDicts(heap)
    /\ comparison \in {"experiment", "run"}

CompareExperiments ==
    /\ call = ""
    /\ call' = "compare_experiments"
    /\ heap' = compare_experiments(heap, experiment_dict, comparison).heap
    /\ ret' = compare_experiments(heap, experiment_dict, comparison).ret
    /\ UNCHANGED <<sg_ret, sg_locals, base_ret, threshold_type, args>>

NextCmp == CompareExperiments

SpecCmp == InitCmp /\ [][NextCmp]_vars

-----------------------------------------------------------------------------
(* C1: _compute_min_cdet returns a min_cost that is <= the cost
   fnr*c_fn*p_target + fpr*c_fp*(1-p_target) of every sample of the curve, and
   the threshold of the first sample, in curve order, whose cost equals
   min_cost. *)

SampleCost(i) ==
    fnrs[i] * dcf.c_fn * dcf.p_target.num
        + fprs[i] * dcf.c_fp * (dcf.p_target.den - dcf.p_target.num)

C1_MinCdetIsFirstGlobalMinimum ==
    call = "_compute_min_cdet" =>
        /\ ret.kind = "return"
        /\ \A i \in 1 .. Len(fnrs) : ret.val[1] <= SampleCost(i)
        /\ \E i \in 1 .. Len(fnrs) :
              /\ SampleCost(i) = ret.val[1]
              /\ \A j \in 1 .. (i - 1) : SampleCost(j) # ret.val[1]
              /\ ret.val[2] = thresholds[i]

\* the minimum is tied between two samples and is not at the first sample
C1_Witness ==
    /\ call = "_compute_min_cdet"
    /\ ret.kind = "return"
    /\ \E i, j \in 1 .. Len(fnrs) :
          /\ 1 < i /\ i < j
          /\ SampleCost(i) = ret.val[1] /\ SampleCost(j) = ret.val[1]
          /\ SampleCost(1) > ret.val[1]
          /\ fnrs[i] # fnrs[j]

(* C2: _evaluate_sv reports eer = 100 * max(fpr, fnr) at the first sample
   minimizing |fnr - fpr|, eer_threshold is that sample's threshold, and eer
   lies in [0, 100]. *)

C2_EerAtFirstClosestSample ==
    call = "_evaluate_sv" =>
        /\ ret.kind = "return"
        /\ \E i \in 1 .. Len(fnrs) :
              /\ \A j \in 1 .. Len(fnrs) :
                    Abs(fnrs[i] - fprs[i]) <= Abs(fnrs[j] - fprs[j])
              /\ \A j \in 1 .. (i - 1) :
                    Abs(fnrs[j] - fprs[j]) > Abs(fnrs[i] - fprs[i])
              /\ ret.val[6] = 100 * (IF fprs[i] >= fnrs[i] THEN fprs[i] ELSE fnrs[i])
              /\ ret.val[7] = thresholds[i]
        /\ 0 <= ret.val[6]
        /\ ret.val[6] <= 100 * RateOne

\* the closest sample is not the first one, is tied with a later one, and its
\* two rates differ
C2_Witness ==
    /\ call = "_evaluate_sv"
    /\ ret.kind = "return"
    /\ \E i, j \in 1 .. Len(fnrs) :
          /\ 1 < i /\ i < j
          /\ ret.val[7] = thresholds[i]
          /\ Abs(fnrs[i] - fprs[i]) = Abs(fnrs[j] - fprs[j])
          /\ fnrs[i] # fprs[i]
          /\ ret.val[6] > 0

(* C4: for a non-empty curve table and any target threshold,
   fpfn_min_threshold without normalization returns the (fpr, fnr) of the
   first row whose |threshold - target| is minimal over all rows; when the
   target equals a row's threshold, it returns the rates of a row with exactly
   that threshold. *)

C4_NearestRowRates ==
    (call = "fpfn_min_threshold" /\ Len(fpfnth) > 0) =>
        /\ ret.kind = "return"
        /\ \E i \in 1 .. Len(fpfnth) :
              /\ \A j \in 1 .. Len(fpfnth) :
                    Abs(fpfnth[i].thresholds - threshold)
                        <= Abs(fpfnth[j].thresholds - threshold)
              /\ \A j \in 1 .. (i - 1) :
                    Abs(fpfnth[j].thresholds - threshold)
                        > Abs(fpfnth[i].thresholds - threshold)
              /\ ret.val = <<fpfnth[i].fprs, fpfnth[i].fnrs>>
              /\ (\E j \in 1 .. Len(fpfnth) : fpfnth[j].thresholds = threshold)
                    => fpfnth[i].thresholds = threshold

\* two rows are equally near the target, one below it and one above, the
\* nearest is not the first row, and the rows carry different rates
C4_Witness ==
    /\ call = "fpfn_min_threshold"
    /\ ret.kind = "return"
    /\ \E i, j \in 1 .. Len(fpfnth) :
          /\ 1 < i /\ i < j
          /\ fpfnth[i].thresholds > threshold
          /\ fpfnth[j].thresholds < threshold
          /\ fpfnth[i].thresholds - threshold = threshold - fpfnth[j].thresholds
          /\ Abs(fpfnth[1].thresholds - threshold)
                > Abs(fpfnth[i].thresholds - threshold)
          /\ ret.val = <<fpfnth[i].fprs, fpfnth[i].fnrs>>
          /\ <<fpfnth[j].fprs, fpfnth[j].fnrs>> # ret.val
          /\ <<fpfnth[1].fprs, fpfnth[1].fnrs>> # ret.val

(* C10: for an ordered list of k attribute names (k = 1, 2 or 3),
   sg_fpfnth_metrics enumerates every element of the Cartesian product of the
   attributes' distinct values exactly once, each as a mapping with exactly
   the k given attributes, in nested-loop order over the sorted values (first
   attribute outermost, last innermost); so |V1| x ... x |Vk| combinations are
   evaluated and the output curve blocks appear in that order. *)

ValuesOf(f_key) == {df[r][f_key] : r \in 1 .. Len(df)}

RECURSIVE ProductSize(_)
ProductSize(n) ==
    IF n = 0 THEN 1
    ELSE Cardinality(ValuesOf(filter_keys[n])) * ProductSize(n - 1)

\* u before v in nested-loop order: at the first attribute where they
\* differ, u has the smaller value
LoopBefore(u, v) ==
    \E n \in 1 .. Len(filter_keys) :
        /\ \A m \in 1 .. (n - 1) : u[m] = v[m]
        /\ StrLess(u[n], v[n])

ItemValues(fi) == [n \in 1 .. Len(fi) |-> fi[n].val]
RowValues(row) == [n \in 1 .. Len(filter_keys) |-> row[filter_keys[n]]]

C10_CartesianProductInLoopOrder ==
    call = "sg_fpfnth_metrics" =>
        LET items == sg_locals.filter_items IN
        /\ Len(items) = ProductSize(Len(filter_keys))
        /\ \A a \in 1 .. Len(items) :
              /\ DictKeys(items[a]) = filter_keys
              /\ \A n \in 1 .. Len(filter_keys) :
                    items[a][n].val \in ValuesOf(filter_keys[n])
        /\ \A a, b \in 1 .. Len(items) :
              a < b => LoopBefore(ItemValues(items[a]), ItemValues(items[b]))
        /\ Len(sg_locals.fpfnth_list) <= Len(items)
        /\ \A a, b \in 1 .. Len(sg_locals.fpfnth_list) :
              a < b => LoopBefore(RowValues(sg_locals.fpfnth_list[a][1]),
                                  RowValues(sg_locals.fpfnth_list[b][1]))
        /\ sg_ret.kind = "return" =>
              /\ sg_ret.val[1] = Concat(sg_locals.fpfnth_list)
              /\ \A i, j \in 1 .. Len(sg_ret.val[1]) :
                    i < j => \/ RowValues(sg_ret.val[1][i]) = RowValues(sg_ret.val[1][j])
                             \/ LoopBefore(RowValues(sg_ret.val[1][i]),
                                           RowValues(sg_ret.val[1][j]))

\* three attributes, eight combinations, two of them with a curve block, and
\* the table's first row carries the larger values
C10_Witness ==
    /\ call = "sg_fpfnth_metrics"
    /\ Len(filter_keys) = 3
    /\ Len(sg_locals.filter_items) = 8
    /\ Len(sg_locals.fpfnth_list) = 2
    /\ sg_ret.kind = "return"
    /\ df[1].ref_nationality = <<"b">>
    /\ df[1].ref_gender = <<"m">>

(* C3: sg_fpfnth_metrics never aborts because of failing subgroups, however
   many combinations fail: every combination whose filtered row set is empty
   or single-class is skipped (no key in the metrics mapping, no rows in the
   curve table), every other combination is present in both outputs, and the
   call returns the partial results instead of raising. *)

MatchingRows(fi) ==
    {r \in 1 .. Len(df) : \A n \in 1 .. Len(fi) : df[r][fi[n].key] = fi[n].val}

\* the filtered row set is empty or holds one class only
Degenerate(fi) == Cardinality({df[r].lab : r \in MatchingRows(fi)}) < 2

C3_PartialResultsAlwaysReturned ==
    call = "sg_fpfnth_metrics" =>
        /\ sg_ret.kind = "return"
        /\ \A a \in 1 .. Len(sg_locals.filter_items) :
              LET fi == sg_locals.filter_items[a]
                  HasKey == DictHas(sg_ret.val[2], sg_name_of(fi))
                  HasRows == \E i \in 1 .. Len(sg_ret.val[1]) :
                                 RowValues(sg_ret.val[1][i]) = ItemValues(fi)
              IN IF Degenerate(fi) THEN ~HasKey /\ ~HasRows
                                   ELSE HasKey /\ HasRows

(* C9: an empty score/label table passed to fpfnth_metrics is an error
   surfaced to the caller, never silently turned into a default return
   value. *)

C9_EmptyTableIsAnError ==
    (call = "fpfnth_metrics" /\ Len(df) = 0) => ret.kind = "raise"

(* C6: the subgroup identifier round-trip is lossless: for every key that
   sg_fpfnth_metrics records, the rows that cdet_diff and fpfn_diff select
   from the concatenated curve table by splitting the key on '_' are exactly
   the rows of the curve block of the combination that produced the key. *)

\* the key recorded for the b-th curve block
BlockKey(b) ==
    str_join(<<"_">>, [n \in 1 .. Len(filter_keys) |->
                          normalise(sg_locals.fpfnth_list[b][1][filter_keys[n]])])

C6_KeyRoundTripLossless ==
    sg_ret.kind = "return" =>
        \A b \in 1 .. Len(sg_locals.fpfnth_list) :
            select_subgroup(sg_ret.val[1], BlockKey(b))
                = Return(sg_locals.fpfnth_list[b])

(* C5: in the table returned by cdet_diff, sg_cdet_diff equals 1.0 for every
   subgroup whose own min_cdet_threshold equals the baseline's
   min_cdet_threshold. *)

C5_SgCdetDiffIsOne ==
    (call = "cdet_diff" /\ ret.kind = "return") =>
        \A i \in 1 .. Len(ret.val) :
            DictGet(sg_ret.val[2], ret.val[i].subgroup).min_cdet_threshold
                    = base_ret.val[2].min_cdet_threshold
                => ret.val[i].sg_cdet_diff = One

(* C8: in the table returned by fpfn_diff, overall_fpr_diff and
   overall_fnr_diff equal the subgroup's fpr and fnr at the baseline's
   threshold divided by the pooled population's own fpr and fnr at that
   threshold, and sg_fpr_diff and sg_fnr_diff equal the subgroup's fpr and fnr
   at its own threshold of the chosen kind divided by its fpr and fnr at the
   baseline threshold. *)

\* the row of a curve table nearest to a threshold, the first one on ties
NearestRow(t, th) ==
    t[CHOOSE i \in 1 .. Len(t) :
          /\ \A j \in 1 .. Len(t) :
                Abs(t[i].thresholds - th) <= Abs(t[j].thresholds - th)
          /\ \A j \in 1 .. (i - 1) :
                Abs(t[j].thresholds - th) > Abs(t[i].thresholds - th)]

\* the curve block of the combination whose metrics are recorded under k
BlockOf(k) ==
    sg_locals.fpfnth_list[CHOOSE b \in 1 .. Len(sg_locals.fpfnth_list) :
        /\ BlockKey(b) = k
        /\ \A c \in (b + 1) .. Len(sg_locals.fpfnth_list) : BlockKey(c) # k]

C8_RateDifferentials ==
    (call = "fpfn_diff" /\ ret.kind = "return") =>
        \A i \in 1 .. Len(ret.val) :
            LET k == ret.val[i].subgroup
                base_th == base_ret.val[2][threshold_type]
                own_th == DictGet(sg_ret.val[2], k)[threshold_type]
                pooled == NearestRow(base_ret.val[1], base_th)
                sg_at_base == NearestRow(BlockOf(k), base_th)
                sg_at_own == NearestRow(BlockOf(k), own_th)
            IN /\ ret.val[i].overall_fpr_diff = Div(sg_at_base.fprs, pooled.fprs)
               /\ ret.val[i].overall_fnr_diff = Div(sg_at_base.fnrs, pooled.fnrs)
               /\ ret.val[i].sg_fpr_diff = Div(sg_at_own.fprs, sg_at_base.fprs)
               /\ ret.val[i].sg_fnr_diff = Div(sg_at_own.fnrs, sg_at_base.fnrs)

\* C7: compare_experiments mutates no input: after the call every curve table
\* and metrics mapping passed in experiment_dict has the same columns and
\* values as before the call, and the returned table is a new concatenation in
\* which each row carries the label of the experiment it came from
SameTable(t, u) ==
    /\ Len(t) = Len(u)
    /\ \A i \in 1 .. Len(t) :
          /\ DOMAIN t[i] = DOMAIN u[i]
          /\ \A c \in DOMAIN t[i] : t[i][c] = u[i][c]

RECURSIVE LabelsOf(_, _, _)
LabelsOf(h, items, i) ==
    IF i > Len(items) THEN <<>>
    ELSE [r \in 1 .. Len(h.df[items[i].val.df]) |-> items[i].key]
         \o LabelsOf(h, items, i + 1)

C7_MutatesNoInput ==
    [][call' = "compare_experiments" =>
         /\ \A i \in 1 .. Len(experiment_dict) :
               /\ SameTable(heap'.df[experiment_dict[i].val.df],
                            heap.df[experiment_dict[i].val.df])
               /\ heap'.metrics[experiment_dict[i].val.metrics]
                     = heap.metrics[experiment_dict[i].val.metrics]
         /\ ret'.kind = "return" =>
               Column(ret'.val[1], comparison) = LabelsOf(heap, experiment_dict, 1)]_vars

====
